---- MODULE Spec2Model ----
(***************************************************************************)
(* Model of src/trading_bot.py: the simulated portfolio ledger of          *)
(* SimpleAITradingBot (execute_trade, calculate_position_size,             *)
(* get_portfolio_value) and its scoring function analyze_memecoin.         *)
(*                                                                         *)
(* Money and share counts are integers here; quotients (cost_basis, the    *)
(* position size, sub-scores) are exact rationals <<num, den>> in lowest   *)
(* terms with den > 0, so that the arithmetic of the code is followed      *)
(* exactly and without rounding.                                           *)
(***************************************************************************)
EXTENDS Integers, Sequences, FiniteSets, TLC

VARIABLES
    cash,           \* self.portfolio['cash']
    positions,      \* self.portfolio['positions']: symbol -> [shares, cost_basis, entry_time]
    total_value,    \* self.portfolio['total_value'], set by __init__ only
    trade_history,  \* self.trade_history
    now,            \* datetime.now(): one tick per call made on the bot
    op,             \* the last call made on the bot and its arguments
    result,         \* what the last call returned (or the exception it raised)
    lots,           \* history variable: per open position, the BUYs since it was opened
    pair_data,      \* the record handed to analyze_memecoin
    analysis        \* what analyze_memecoin returned

ledger == <<cash, positions, total_value, trade_history>>
scoring == <<pair_data, analysis>>
vars == <<cash, positions, total_value, trade_history, now, op, result, lots,
          pair_data, analysis>>

----------------------------------------------------------------------------
(* Bounds of the model *)

MaxCalls == 3

Symbols == {"X", "Y"}
Decisions == {"BUY", "SELL", "HOLD"}
Prices == {1, 2}
Amounts == {-1, 0, 1, 2}
NonNegPrices == {0, 1, 2}
NonNegAmounts == {0, 1, 2}
SizePrices == {-1, 0, 1, 2}
StopLosses == {0, 1}
InitialCapitals == {0, 3}

----------------------------------------------------------------------------
(* Exact rational arithmetic *)

Abs(x) == IF x < 0 THEN 0 - x ELSE x

RECURSIVE GCD(_, _)
GCD(a, b) == IF b = 0 THEN a ELSE GCD(b, a % b)

\* n/d in lowest terms with a positive denominator (d # 0)
Frac(n, d) ==
    LET g == GCD(Abs(n), Abs(d))
        sgn == IF d < 0 THEN 0 - 1 ELSE 1
    IN  <<(sgn * n) \div g, (sgn * d) \div g>>

Rat(n) == <<n, 1>>
RAdd(x, y) == Frac(x[1] * y[2] + y[1] * x[2], x[2] * y[2])
RSub(x, y) == Frac(x[1] * y[2] - y[1] * x[2], x[2] * y[2])
RMul(x, y) == Frac(x[1] * y[1], x[2] * y[2])
RDiv(x, y) == Frac(x[1] * y[2], x[2] * y[1])
RLe(x, y) == x[1] * y[2] <= y[1] * x[2]
RMin(x, y) == IF RLe(y, x) THEN y ELSE x

----------------------------------------------------------------------------
(* Values returned by the ledger operations: result = [kind, value] *)

NoResult == [kind |-> "none", value |-> "none"]
\* line 230: return {'error': 'Trade execution failed'}
ErrorResult == [kind |-> "error", value |-> "Trade execution failed"]
\* a call that did not return: Python raised ZeroDivisionError out of it
ZeroDivisionError == [kind |-> "raised", value |-> "ZeroDivisionError"]
Returned(v) == [kind |-> "record", value |-> v]
Number(q) == [kind |-> "number", value |-> q]

TradeRecord(symbol, action, shares, price, value, ts) ==
    [symbol |-> symbol, action |-> action, shares |-> shares, price |-> price,
     value |-> value, timestamp |-> ts]

\* op = the call last made on the bot, with its arguments
NoCall == [name |-> "__init__"]
TradeCall(symbol, decision, price, amount) ==
    [name |-> "execute_trade", symbol |-> symbol, decision |-> decision,
     price |-> price, amount |-> amount]
SizeCall(symbol, price, stop_loss) ==
    [name |-> "calculate_position_size", symbol |-> symbol, price |-> price,
     stop_loss |-> stop_loss]
ValueCall == [name |-> "get_portfolio_value"]

----------------------------------------------------------------------------
(* SimpleAITradingBot: the ledger *)

\* risk_per_trade = 0.02 and the 10% cap, as percentages
RiskPerTradePct == 2
MaxPositionPct == 10
PctScale == 100

Held(symbol, pos) == symbol \in DOMAIN pos

\* variants of the BUY guard: one unit too generous, and missing
BuyGuard_OffByOne(trade_value, c) == trade_value <= c + 1
BuyGuard_Missing(trade_value, c) == TRUE

\* line 178: trade_value <= self.portfolio['cash']
BuyGuard(trade_value, c) == trade_value <= c

\* variants of the averaging: the old basis weighted by the shares after the
\* purchase instead of before it, and the basis left as it was
NewCostBasis_NewSharesWeight(cost_basis, shares, amount, trade_value) ==
    RDiv(RAdd(RMul(cost_basis, Rat(shares)), Rat(trade_value)), Rat(shares))
NewCostBasis_Stale(cost_basis, shares, amount, trade_value) == cost_basis

\* lines 183-187: the cost basis of a position that is bought into again
NewCostBasis(cost_basis, shares, amount, trade_value) ==
    RDiv(RAdd(RMul(cost_basis, Rat(shares - amount)), Rat(trade_value)), Rat(shares))

\* variant: the requested amount is sold as it is
ClampAmount_Missing(amount, shares) == amount

\* lines 208-209: a SELL never sells more than is held
ClampAmount(amount, shares) == IF amount > shares THEN shares ELSE amount

\* variant: the value of line 176 is kept after the clamp
SellTradeValue_Stale(requested, sold, price) == requested * price

\* lines 176 and 212: trade_value, recomputed from the clamped amount
SellTradeValue(requested, sold, price) == sold * price

\* variant: the history is overwritten by the new record
AppendRecord_Overwrite(history, record) == <<record>>

\* lines 203, 227: self.trade_history.append(trade_record)
AppendRecord(history, record) == Append(history, record)

\* lines 178-204
Buy(symbol, price, amount) ==
    LET trade_value == amount * price IN
    /\ cash' = cash - trade_value
    /\ IF Held(symbol, positions)
       THEN LET shares == positions[symbol].shares + amount IN
            IF shares = 0
            THEN \* the division of line 186 raises after cash and shares were updated
                 /\ positions' = [positions EXCEPT ![symbol].shares = shares]
                 /\ trade_history' = trade_history
                 /\ result' = ZeroDivisionError
            ELSE /\ positions' = [positions EXCEPT
                        ![symbol].shares = shares,
                        ![symbol].cost_basis =
                            NewCostBasis(positions[symbol].cost_basis, shares,
                                         amount, trade_value)]
                 /\ trade_history' = AppendRecord(trade_history,
                        TradeRecord(symbol, "BUY", amount, price, trade_value, now))
                 /\ result' = Returned(
                        TradeRecord(symbol, "BUY", amount, price, trade_value, now))
       ELSE /\ positions' = [s \in DOMAIN positions \cup {symbol} |->
                    IF s = symbol
                    THEN [shares |-> amount, cost_basis |-> Rat(price),
                          entry_time |-> now]
                    ELSE positions[s]]
            /\ trade_history' = AppendRecord(trade_history,
                   TradeRecord(symbol, "BUY", amount, price, trade_value, now))
            /\ result' = Returned(
                   TradeRecord(symbol, "BUY", amount, price, trade_value, now))

\* lines 206-228
Sell(symbol, price, amount) ==
    LET sold == ClampAmount(amount, positions[symbol].shares)
        trade_value == SellTradeValue(amount, sold, price)
        shares == positions[symbol].shares - sold
    IN
    /\ cash' = cash + trade_value
    /\ positions' = IF shares = 0
                    THEN [s \in DOMAIN positions \ {symbol} |-> positions[s]]
                    ELSE [positions EXCEPT ![symbol].shares = shares]
    /\ trade_history' = AppendRecord(trade_history,
           TradeRecord(symbol, "SELL", sold, price, trade_value, now))
    /\ result' = Returned(TradeRecord(symbol, "SELL", sold, price, trade_value, now))

\* line 230
Reject ==
    /\ UNCHANGED <<cash, positions, trade_history>>
    /\ result' = ErrorResult

\* lines 174-230
execute_trade(symbol, decision, price, amount) ==
    /\ IF decision = "BUY" /\ BuyGuard(amount * price, cash)
       THEN Buy(symbol, price, amount)
       ELSE IF decision = "SELL" /\ Held(symbol, positions)
       THEN Sell(symbol, price, amount)
       ELSE Reject
    /\ op' = TradeCall(symbol, decision, price, amount)
    /\ now' = now + 1
    /\ UNCHANGED total_value

\* lines 160-172; None of the divisions is guarded against price = 0
PositionSize(c, price, stop_loss) ==
    LET risk_amount == Frac(c * RiskPerTradePct, PctScale)
        price_risk == Abs(price - stop_loss)
        max_position_value == Frac(c * MaxPositionPct, PctScale)
    IN  IF price_risk = 0 THEN Number(Rat(0))
        ELSE IF price = 0 THEN ZeroDivisionError
        ELSE Number(RMin(RDiv(risk_amount, Rat(price_risk)),
                         RDiv(max_position_value, Rat(price))))

calculate_position_size(symbol, price, stop_loss) ==
    /\ result' = PositionSize(cash, price, stop_loss)
    /\ op' = SizeCall(symbol, price, stop_loss)
    /\ now' = now + 1
    /\ UNCHANGED ledger

\* lines 232-238
RECURSIVE SumPositions(_, _)
SumPositions(pos, keys) ==
    IF keys = {} THEN Rat(0)
    ELSE LET s == CHOOSE k \in keys : TRUE IN
         RAdd(RMul(Rat(pos[s].shares), pos[s].cost_basis),
              SumPositions(pos, keys \ {s}))

PortfolioValue(c, pos) == RAdd(Rat(c), SumPositions(pos, DOMAIN pos))

get_portfolio_value ==
    /\ result' = Number(PortfolioValue(cash, positions))
    /\ op' = ValueCall
    /\ now' = now + 1
    /\ UNCHANGED ledger

----------------------------------------------------------------------------
(* History of the open positions: for each one, the sum of the amounts and  *)
(* of amount * price over the successful BUYs since it was opened, whether  *)
(* a SELL has reduced it since, and whether a call on it has raised.        *)

LotsNext(symbol) ==
    lots' = [s \in DOMAIN positions' |->
        IF s # symbol THEN lots[s]
        ELSE IF result'.kind = "raised" THEN [lots[s] EXCEPT !.faulted = TRUE]
        ELSE IF result'.kind # "record" THEN lots[s]
        ELSE IF result'.value.action = "SELL" THEN [lots[s] EXCEPT !.sold = TRUE]
        ELSE IF s \in DOMAIN positions
        THEN [lots[s] EXCEPT !.qty = @ + result'.value.shares,
                             !.cost = @ + result'.value.value]
        ELSE [qty |-> result'.value.shares, cost |-> result'.value.value,
              sold |-> FALSE, faulted |-> FALSE]]

----------------------------------------------------------------------------
(* SimpleAITradingBot.analyze_memecoin                                      *)
(* Sub-scores are in tenths, weights in hundredths, the score in           *)
(* thousandths. A field of pair_data is [tag, v]: absent, malformed (a      *)
(* value of the wrong type, None included) or a value. priceChange is in    *)
(* hundredths, the age of the pair in minutes; the symbol and the name of   *)
(* the base token are given by the set of indicators each contains.         *)

LiquidityWeight == 30
MomentumWeight == 25
VolumeWeight == 20
AgeWeight == 15
SocialWeight == 10
BuyThreshold == 700
SellThreshold == 300

Absent == [tag |-> "absent", v |-> 0]
Malformed == [tag |-> "malformed", v |-> 0]
Value_(n) == [tag |-> "value", v |-> n]

social_indicators == {"elon", "moon", "doge", "shib", "pepe", "wojak"}

AbsentToken == [tag |-> "absent", symbol |-> {}, name |-> {}]
MalformedToken == [tag |-> "malformed", symbol |-> {}, name |-> {}]
Token(symbol, name) == [tag |-> "value", symbol |-> symbol, name |-> name]

Reason(text) == [text |-> text, usd |-> 0]
GoodLiquidity(liquidity) == [text |-> "Good liquidity", usd |-> liquidity]
AnalysisError == Reason("Analysis error")

\* lines 74-85
_calculate_liquidity_score(liquidity) ==
    IF liquidity >= 50000 THEN 10
    ELSE IF liquidity >= 25000 THEN 8
    ELSE IF liquidity >= 10000 THEN 6
    ELSE IF liquidity >= 5000 THEN 4
    ELSE 2

\* lines 87-104
_calculate_price_momentum(priceChange) ==
    IF priceChange.tag = "malformed" THEN 5
    ELSE LET h24_change == priceChange.v IN
         IF h24_change > 50 THEN 9
         ELSE IF h24_change > 20 THEN 7
         ELSE IF h24_change > 0 THEN 5
         ELSE IF h24_change > 0 - 10 THEN 3
         ELSE 1

\* lines 106-123
_analyze_volume(volume) ==
    IF volume.tag = "malformed" THEN 3
    ELSE LET h24_volume == volume.v IN
         IF h24_volume > 1000000 THEN 10
         ELSE IF h24_volume > 500000 THEN 8
         ELSE IF h24_volume > 100000 THEN 6
         ELSE IF h24_volume > 50000 THEN 4
         ELSE 2

\* lines 125-143
_analyze_token_age(age) ==
    IF age.tag # "value" THEN 5
    ELSE LET age_minutes == age.v IN
         IF age_minutes <= 60 THEN 10
         ELSE IF age_minutes <= 360 THEN 8
         ELSE IF age_minutes <= 1440 THEN 6
         ELSE 3

\* lines 145-158 (baseToken is a mapping here; otherwise the call raises)
_estimate_social_presence(baseToken) ==
    LET matches == Cardinality({i \in social_indicators :
                        i \in baseToken.symbol \/ i \in baseToken.name})
    IN  IF matches * 2 > 10 THEN 10 ELSE matches * 2

\* variant: exclusive bounds
Decide_Strict(score) ==
    IF score > BuyThreshold THEN "BUY"
    ELSE IF score < SellThreshold THEN "SELL"
    ELSE "HOLD"

\* lines 62-67
Decide(score) ==
    IF score >= BuyThreshold THEN "BUY"
    ELSE IF score <= SellThreshold THEN "SELL"
    ELSE "HOLD"

\* lines 21-72
analyze_memecoin(pd) ==
    IF pd.liquidity.tag = "malformed"
    THEN \* line 32 raises; lines 69-70
         [score |-> 0, decision |-> "HOLD", confidence |-> 0,
          reasons |-> <<AnalysisError>>]
    ELSE
    LET liquidity == pd.liquidity.v
        liquidity_score == _calculate_liquidity_score(liquidity)
        price_change == _calculate_price_momentum(pd.priceChange)
        volume_score == _analyze_volume(pd.volume)
        age_score == _analyze_token_age(pd.age)
        partial == liquidity_score * LiquidityWeight + price_change * MomentumWeight
                   + volume_score * VolumeWeight + age_score * AgeWeight
        reasons == (IF liquidity_score > 7 THEN <<GoodLiquidity(liquidity)>> ELSE <<>>)
                   \o (IF price_change > 7 THEN <<Reason("Strong positive momentum")>>
                       ELSE <<>>)
                   \o (IF volume_score > 6 THEN <<Reason("High trading volume")>> ELSE <<>>)
                   \o (IF age_score > 8 THEN <<Reason("Fresh token launch")>> ELSE <<>>)
    IN  IF pd.baseToken.tag = "malformed"
        THEN \* line 57 raises; lines 69-70
             [score |-> partial, decision |-> "HOLD", confidence |-> 0,
              reasons |-> reasons \o <<AnalysisError>>]
        ELSE LET score == partial
                          + _estimate_social_presence(pd.baseToken) * SocialWeight
             IN  [score |-> score, decision |-> Decide(score), confidence |-> score,
                  reasons |-> reasons]

----------------------------------------------------------------------------
(* Inputs of analyze_memecoin *)

Liquidities == {Absent, Malformed} \cup {Value_(n) : n \in {4999, 5000, 10000, 25000, 50000}}
PriceChanges == {Absent, Malformed} \cup {Value_(n) : n \in {0 - 10, 0, 20, 50, 51}}
Volumes == {Absent, Malformed} \cup {Value_(n) : n \in {50000, 50001, 100001, 500001, 1000001}}
Ages == {Absent, Malformed} \cup {Value_(n) : n \in {60, 61, 360, 1440, 1441}}
BaseTokens == {AbsentToken, MalformedToken, Token({}, {}), Token({"doge"}, {"doge"}),
               Token({"pepe"}, {"moon", "elon"}), Token(social_indicators, {})}
PairDatas == [liquidity : Liquidities, priceChange : PriceChanges, volume : Volumes,
              age : Ages, baseToken : BaseTokens]

NoPairData == [liquidity |-> Absent, priceChange |-> Absent, volume |-> Absent,
               age |-> Absent, baseToken |-> AbsentToken]
NoAnalysis == [score |-> 0, decision |-> "none", confidence |-> 0, reasons |-> <<>>]

----------------------------------------------------------------------------
(* The bot as a state machine *)

\* lines 12-19
Init ==
    /\ cash \in InitialCapitals
    /\ total_value = cash
    /\ positions = <<>>
    /\ trade_history = <<>>
    /\ now = 0
    /\ op = NoCall
    /\ result = NoResult
    /\ lots = <<>>
    /\ pair_data = NoPairData
    /\ analysis = NoAnalysis

Trade ==
    /\ now < MaxCalls
    /\ \E symbol \in Symbols, decision \in Decisions, price \in Prices, amount \in Amounts :
          /\ execute_trade(symbol, decision, price, amount)
          /\ LotsNext(symbol)
    /\ UNCHANGED scoring

Size ==
    /\ now < MaxCalls
    /\ \E symbol \in Symbols, price \in SizePrices, stop_loss \in StopLosses :
          calculate_position_size(symbol, price, stop_loss)
    /\ UNCHANGED <<lots, scoring>>

Value ==
    /\ now < MaxCalls
    /\ get_portfolio_value
    /\ UNCHANGED <<lots, scoring>>

Next == Trade \/ Size \/ Value

Spec == Init /\ [][Next]_vars

\* the ledger driven by execute_trade calls with non-negative price and amount
TradeNonNeg ==
    /\ now < MaxCalls
    /\ \E symbol \in Symbols, decision \in Decisions,
          price \in NonNegPrices, amount \in NonNegAmounts :
          /\ execute_trade(symbol, decision, price, amount)
          /\ LotsNext(symbol)
    /\ UNCHANGED scoring

NextNonNeg == TradeNonNeg

SpecNonNeg == Init /\ [][NextNonNeg]_vars

\* the scoring function applied to a record drawn at the start
InitAnalyze ==
    /\ cash \in InitialCapitals
    /\ total_value = cash
    /\ positions = <<>>
    /\ trade_history = <<>>
    /\ now = 0
    /\ op = NoCall
    /\ result = NoResult
    /\ lots = <<>>
    /\ pair_data \in PairDatas
    /\ analysis = NoAnalysis

Analyze ==
    /\ analysis = NoAnalysis
    /\ analysis' = analyze_memecoin(pair_data)
    /\ UNCHANGED <<cash, positions, total_value, trade_history, now, op, result, lots,
                   pair_data>>

NextAnalyze == Analyze

SpecAnalyze == InitAnalyze /\ [][NextAnalyze]_vars

----------------------------------------------------------------------------
(* Properties *)

IsTrade(call) == call.name = "execute_trade"

\* the cases in which execute_trade is to reject the call
RejectCase(c, pos, call) ==
    \/ call.decision = "BUY" /\ call.amount * call.price > c
    \/ call.decision = "SELL" /\ call.symbol \notin DOMAIN pos
    \/ call.decision \notin {"BUY", "SELL"}

\* C1: an execute_trade call that is to be rejected (BUY beyond cash, SELL of a
\* symbol not held, any other decision) returns the error result and leaves
\* cash, positions and trade_history as they were.
C1_RejectedTradeIsNoOp ==
    [][(IsTrade(op') /\ RejectCase(cash, positions, op'))
        => (result' = ErrorResult /\ UNCHANGED <<cash, positions, trade_history>>)]_vars

\* a BUY beyond cash was rejected on a ledger that already holds a position
C1_Witness ==
    /\ IsTrade(op) /\ op.decision = "BUY" /\ op.amount * op.price > cash
    /\ result = ErrorResult
    /\ Len(trade_history) > 0 /\ DOMAIN positions # {}

\* C2: every symbol present in positions has shares > 0.
C2_HeldSharesPositive ==
    \A s \in DOMAIN positions : positions[s].shares > 0

\* C3 (as claimed): the cost_basis of every held symbol is the volume-weighted
\* average price of all BUYs of it since its position was opened, partial SELLs
\* in between or not. Stated for the ordinary trades, those of a positive
\* amount.
C3_CostBasisIsVWAP ==
    (\A i \in 1..Len(trade_history) : trade_history[i].shares > 0)
        => \A s \in DOMAIN positions :
              (~lots[s].faulted /\ lots[s].qty # 0)
                  => positions[s].cost_basis = Frac(lots[s].cost, lots[s].qty)

\* C3 (amended): the cost_basis of a held symbol is the volume-weighted average
\* price of all BUYs of it since its position was opened as long as no SELL of
\* that symbol was executed since then.
C3_CostBasisIsVWAPUntilSold ==
    \A s \in DOMAIN positions :
        (~lots[s].faulted /\ ~lots[s].sold /\ lots[s].qty # 0)
            => positions[s].cost_basis = Frac(lots[s].cost, lots[s].qty)

\* a position built by BUYs at different prices and never sold from
C3_Witness ==
    \E s \in DOMAIN positions :
        /\ ~lots[s].faulted /\ ~lots[s].sold /\ lots[s].qty > 1
        /\ positions[s].cost_basis[2] # 1

\* C4: a call that returns a trade record changes cash by exactly
\* record.shares * record.price = record.value, down for a BUY, up for a SELL.
C4_CashMovesByRecordValue ==
    [][(IsTrade(op') /\ result'.kind = "record")
        => LET r == result'.value IN
           /\ r.value = r.shares * r.price
           /\ r.action = "BUY" => cash' = cash - r.shares * r.price
           /\ r.action = "SELL" => cash' = cash + r.shares * r.price
           /\ r.action \in {"BUY", "SELL"}]_vars

\* a BUY of a positive value was recorded after an earlier trade
C4_Witness ==
    /\ IsTrade(op) /\ result.kind = "record"
    /\ result.value.action = "BUY" /\ result.value.value > 0
    /\ Len(trade_history) > 1

\* C5: a SELL of a held symbol for more than the h shares held sells exactly h:
\* cash goes up by h * price, the symbol leaves positions, and the record
\* appended has shares = h and value = h * price.
C5_SellClampsToHolding ==
    [][(/\ IsTrade(op') /\ op'.decision = "SELL"
        /\ op'.symbol \in DOMAIN positions
        /\ op'.amount > positions[op'.symbol].shares)
        => LET h == positions[op'.symbol].shares IN
           /\ cash' = cash + h * op'.price
           /\ op'.symbol \notin DOMAIN positions'
           /\ result'.kind = "record"
           /\ result'.value.action = "SELL"
           /\ result'.value.shares = h
           /\ result'.value.value = h * op'.price
           /\ trade_history' = Append(trade_history, result'.value)]_vars

\* a SELL asked for more than the positive holding and was cut down to it
C5_Witness ==
    /\ IsTrade(op) /\ op.decision = "SELL" /\ result.kind = "record"
    /\ result.value.shares > 0 /\ op.amount > result.value.shares
    /\ op.symbol \notin DOMAIN positions

\* C6: trade_history is append-only: a call that returns a record appends that
\* record and nothing else, every other call leaves the history as it is, and
\* no entry is ever changed, moved or removed.
C6_HistoryAppendOnly ==
    [][/\ Len(trade_history') >= Len(trade_history)
       /\ SubSeq(trade_history', 1, Len(trade_history)) = trade_history
       /\ IF IsTrade(op') /\ result'.kind = "record"
          THEN trade_history' = Append(trade_history, result'.value)
          ELSE trade_history' = trade_history]_vars

\* a second record was appended behind the first
C6_Witness ==
    /\ Len(trade_history) > 1
    /\ result.kind = "record"
    /\ trade_history[Len(trade_history)] = result.value
    /\ trade_history[1] # result.value

\* the decision the rule gives for a score
DecisionRuleHolds(a) ==
    /\ a.score >= BuyThreshold => a.decision = "BUY"
    /\ a.score <= SellThreshold => a.decision = "SELL"
    /\ (a.score > SellThreshold /\ a.score < BuyThreshold) => a.decision = "HOLD"

Faulted(a) == \E i \in 1..Len(a.reasons) : a.reasons[i] = AnalysisError

\* C7 (as claimed): every result of analyze_memecoin, those returned after a
\* caught fault included, has the decision its score gives: BUY from 0.7 up,
\* SELL from 0.3 down, HOLD between.
C7_DecisionFollowsScore ==
    analysis # NoAnalysis => DecisionRuleHolds(analysis)

\* C7 (amended): a result returned without a caught fault has the decision its
\* score gives, bounds inclusive; a result returned after a caught fault has
\* decision HOLD and confidence 0 whatever partial score it carries.
C7_DecisionFollowsScoreUnlessFaulted ==
    analysis # NoAnalysis =>
        IF Faulted(analysis)
        THEN analysis.decision = "HOLD" /\ analysis.confidence = 0
        ELSE DecisionRuleHolds(analysis) /\ analysis.confidence = analysis.score

\* a score exactly on the BUY bound, without a fault
C7_Witness ==
    /\ analysis # NoAnalysis /\ ~Faulted(analysis)
    /\ analysis.score = BuyThreshold /\ analysis.decision = "BUY"

\* C8: calculate_position_size never raises: it returns 0 when price equals
\* stop_loss and otherwise min(cash*risk/|price-stop_loss|, cash*0.10/price),
\* and leaves the ledger alone.
C8_SizeNeverFails ==
    [][op'.name = "calculate_position_size"
        => /\ result'.kind = "number"
           /\ op'.price = op'.stop_loss => result'.value = Rat(0)
           /\ (op'.price # op'.stop_loss /\ op'.price # 0) =>
                 result'.value =
                     RMin(Frac(cash * RiskPerTradePct,
                               PctScale * Abs(op'.price - op'.stop_loss)),
                          Frac(cash * MaxPositionPct, PctScale * op'.price))
           /\ UNCHANGED <<cash, positions, trade_history>>]_vars

C10_CashNonNegative == cash >= 0

\* a BUY that spent the last of the cash
C10_Witness ==
    /\ IsTrade(op) /\ result.kind = "record" /\ result.value.action = "BUY"
    /\ result.value.value > 0 /\ cash = 0

====
